---- MODULE Spec2Model ----
(***************************************************************************)
(* Wayframe configuration resolver: pkg/config (Loader) and                *)
(* internal/config (Config).  Strings are TLA+ strings handled character   *)
(* by character (Head, Tail, SubSeq, \o), so ToUpper, TrimSpace, Trim,     *)
(* Atoi, ParseDuration and Sprintf("%v") are computed, never assumed.      *)
(* Durations are counted in milliseconds.                                  *)
(***************************************************************************)
EXTENDS Integers, Sequences, FiniteSets, TLC

VARIABLES variant, prefix, env, files, values, durations, last,
          goroutines, fatal,
          middleware, routes, registered, order, served,
          impl, startPc, serve, errChan, quit, conns, closed, startRes,
          logImpl, loggers, logged

\* The resolver and its caller.
cfgVars == <<variant, prefix, env, files, values, durations, last>>

\* The goroutines sharing a resolver.
concVars == <<goroutines, fatal>>

\* The HTTP server's middleware and routes.
mwVars == <<middleware, routes, registered, order, served>>

\* A Start call, the serving goroutine it spawns, and the listener.
startVars == <<impl, startPc, serve, errChan, quit, conns, closed, startRes>>

webVars == <<mwVars, startVars>>

\* The loggers and the last message given to one.
logVars == <<logImpl, loggers, logged>>

\* What the resolver's operations leave alone.
others == <<concVars, webVars, logVars>>

vars == <<cfgVars, others>>

(***************************************************************************)
(* Characters and the string functions of the Go library the code calls.  *)
(***************************************************************************)
LowerLetters == "abcdefghijklmnopqrstuvwxyz"
UpperLetters == "ABCDEFGHIJKLMNOPQRSTUVWXYZ"
Digits == "0123456789"

Ch(s, i) == SubSeq(s, i, i)

\* Position of the one-character string c in alphabet, 0 when absent.
IndexIn(c, alphabet) ==
  IF \E i \in 1..Len(alphabet) : Ch(alphabet, i) = c
  THEN CHOOSE i \in 1..Len(alphabet) : Ch(alphabet, i) = c
  ELSE 0

UpperChar(c) ==
  LET i == IndexIn(c, LowerLetters) IN IF i = 0 THEN c ELSE Ch(UpperLetters, i)

LowerChar(c) ==
  LET i == IndexIn(c, UpperLetters) IN IF i = 0 THEN c ELSE Ch(LowerLetters, i)

RECURSIVE ToUpper(_)
ToUpper(s) == IF s = "" THEN "" ELSE UpperChar(Head(s)) \o ToUpper(Tail(s))

RECURSIVE ToLower(_)
ToLower(s) == IF s = "" THEN "" ELSE LowerChar(Head(s)) \o ToLower(Tail(s))

IsSpace(c) == c \in {" ", "\t", "\r", "\n"}

RECURSIVE TrimLeftSet(_, _)
TrimLeftSet(s, cut) ==
  IF s # "" /\ Head(s) \in cut THEN TrimLeftSet(Tail(s), cut) ELSE s

RECURSIVE TrimRightSet(_, _)
TrimRightSet(s, cut) ==
  IF s # "" /\ Ch(s, Len(s)) \in cut
  THEN TrimRightSet(SubSeq(s, 1, Len(s) - 1), cut)
  ELSE s

\* strings.Trim(s, cutset): every leading and trailing character of the cutset.
Trim(s, cut) == TrimRightSet(TrimLeftSet(s, cut), cut)

TrimSpace(s) == Trim(s, {" ", "\t", "\r", "\n"})

HasPrefix(s, p) == Len(s) >= Len(p) /\ SubSeq(s, 1, Len(p)) = p

\* strings.Index for a one-character separator, 0 when absent.
IndexOf(s, c) ==
  IF \E i \in 1..Len(s) : Ch(s, i) = c
  THEN CHOOSE i \in 1..Len(s) : Ch(s, i) = c /\ \A j \in 1..(i - 1) : Ch(s, j) # c
  ELSE 0

\* strings.LastIndex for a one-character separator, 0 when absent.
LastIndexOf(s, c) ==
  IF \E i \in 1..Len(s) : Ch(s, i) = c
  THEN CHOOSE i \in 1..Len(s) : Ch(s, i) = c /\ \A j \in (i + 1)..Len(s) : Ch(s, j) # c
  ELSE 0

\* strings.Split(s, "\n")
RECURSIVE SplitLines(_)
SplitLines(s) ==
  LET i == IndexOf(s, "\n") IN
  IF i = 0 THEN <<s>>
  ELSE <<SubSeq(s, 1, i - 1)>> \o SplitLines(SubSeq(s, i + 1, Len(s)))

IsDigit(c) == IndexIn(c, Digits) # 0

AllDigits(s) == s # "" /\ \A i \in 1..Len(s) : IsDigit(Ch(s, i))

RECURSIVE DigitsValue(_, _)
DigitsValue(s, acc) ==
  IF s = "" THEN acc
  ELSE DigitsValue(Tail(s), 10 * acc + (IndexIn(Head(s), Digits) - 1))

RECURSIVE NatToStr(_)
NatToStr(n) ==
  IF n < 10 THEN Ch(Digits, n + 1)
  ELSE NatToStr(n \div 10) \o Ch(Digits, (n % 10) + 1)

\* strconv.Itoa / the %d form.
Itoa(n) == IF n < 0 THEN "-" \o NatToStr(-n) ELSE NatToStr(n)

(***************************************************************************)
(* strconv and time parsers.  A parse result is [ok, v].                   *)
(***************************************************************************)
Fail == [ok |-> FALSE, v |-> 0]

Ok(v) == [ok |-> TRUE, v |-> v]

\* strconv.Atoi and strconv.ParseInt(s, 10, 64): an optional sign, then digits.
Atoi(s) ==
  LET signed == s # "" /\ Head(s) \in {"+", "-"}
      body == IF signed THEN Tail(s) ELSE s
  IN IF ~AllDigits(body) THEN Fail
     ELSE IF signed /\ Head(s) = "-" THEN Ok(-DigitsValue(body, 0))
     ELSE Ok(DigitsValue(body, 0))

\* strconv.ParseUint(s, 10, 64): digits only, no sign.
ParseUint(s) == IF AllDigits(s) THEN Ok(DigitsValue(s, 0)) ELSE Fail

\* strconv.ParseBool
ParseBool(s) ==
  IF s \in {"1", "t", "T", "TRUE", "true", "True"} THEN Ok(TRUE)
  ELSE IF s \in {"0", "f", "F", "FALSE", "false", "False"} THEN Ok(FALSE)
  ELSE [ok |-> FALSE, v |-> FALSE]

\* time.ParseDuration's unit table, in milliseconds (whole milliseconds and
\* whole numbers only: "ns", "us" and fractions are outside the inputs below).
HasUnit(u) == u \in {"ms", "s", "m", "h"}

UnitMs(u) ==
  CASE u = "ms" -> 1
    [] u = "s" -> 1000
    [] u = "m" -> 60000
    [] u = "h" -> 3600000

\* Length of the longest prefix of s made of digits (isDigits) or of
\* characters that are neither a digit nor "." (~isDigits).
RECURSIVE RunLen(_, _)
RunLen(s, isDigits) ==
  IF s = "" THEN 0
  ELSE IF isDigits
       THEN (IF IsDigit(Head(s)) THEN 1 + RunLen(Tail(s), isDigits) ELSE 0)
       ELSE (IF IsDigit(Head(s)) \/ Head(s) = "." THEN 0
             ELSE 1 + RunLen(Tail(s), isDigits))

\* The loop of time.ParseDuration: one or more <digits><unit> groups.
RECURSIVE DurationGroups(_, _)
DurationGroups(s, acc) ==
  IF s = "" THEN Ok(acc)
  ELSE LET nd == RunLen(s, TRUE)
           rest == SubSeq(s, nd + 1, Len(s))
           nu == RunLen(rest, FALSE)
           unit == SubSeq(rest, 1, nu)
       IN IF nd = 0 \/ nu = 0 \/ ~HasUnit(unit) THEN Fail
          ELSE DurationGroups(SubSeq(rest, nu + 1, Len(rest)),
                              acc + DigitsValue(SubSeq(s, 1, nd), 0) * UnitMs(unit))

ParseDuration(s) ==
  LET signed == s # "" /\ Head(s) \in {"+", "-"}
      body == IF signed THEN Tail(s) ELSE s
      r == DurationGroups(body, 0)
  IN IF body = "0" THEN Ok(0)
     ELSE IF body = "" \/ ~r.ok THEN Fail
     ELSE IF signed /\ Head(s) = "-" THEN Ok(-r.v)
     ELSE r

(***************************************************************************)
(* fmt.Sprintf("%v", leaf) for the leaves the decoders produce.  A JSON     *)
(* number is a float64 and prints in the %g form: exponent notation from    *)
(* 1e+06 on.  A YAML integer is an int and prints in base 10.               *)
(***************************************************************************)
TwoDigits(n) == IF n < 10 THEN "0" \o NatToStr(n) ELSE NatToStr(n)

\* strconv.FormatFloat(f, 'g', -1, 64) for a whole-numbered f.
FormatFloat(n) ==
  LET all == NatToStr(IF n < 0 THEN -n ELSE n)
      sig == IF n = 0 THEN "0" ELSE TrimRightSet(all, {"0"})
      exp == Len(all) - 1
      sign == IF n < 0 THEN "-" ELSE ""
  IN IF exp < 6 THEN sign \o all  \* %e is used from exponent 6 on
     ELSE sign \o Ch(sig, 1)
          \o (IF Len(sig) > 1 THEN "." \o SubSeq(sig, 2, Len(sig)) ELSE "")
          \o "e+" \o TwoDigits(exp)

Sprintf(node) ==
  CASE node.t = "str" -> node.s
    [] node.t = "float" -> FormatFloat(node.n)
    [] node.t = "int" -> Itoa(node.n)
    [] node.t = "bool" -> (IF node.b THEN "true" ELSE "false")
    [] node.t = "nil" -> "<nil>"

\* The decoders' values: string, float64 (every JSON number), int (a YAML
\* integer), bool, and a nested map[string]interface{}.
StrLeaf(s) == [t |-> "str", s |-> s]
FloatLeaf(n) == [t |-> "float", n |-> n]
IntLeaf(n) == [t |-> "int", n |-> n]
BoolLeaf(b) == [t |-> "bool", b |-> b]
MapNode(m) == [t |-> "map", m |-> m]

(***************************************************************************)
(* The file-value table and the three parsers of LoadFile.                 *)
(***************************************************************************)
EmptyTable == <<>>

Put(tbl, k, v) == (k :> v) @@ tbl

\* Writes that never replace an entry already in the table.
RECURSIVE ApplyWrites_KeepExisting(_, _)
ApplyWrites_KeepExisting(tbl, ws) ==
  IF ws = <<>> THEN tbl
  ELSE ApplyWrites_KeepExisting(
         IF Head(ws).k \in DOMAIN tbl THEN tbl ELSE Put(tbl, Head(ws).k, Head(ws).v),
         Tail(ws))

RECURSIVE ApplyWrites(_, _)
ApplyWrites(tbl, ws) ==
  IF ws = <<>> THEN tbl
  ELSE ApplyWrites(Put(tbl, Head(ws).k, Head(ws).v), Tail(ws))

Perms(S) ==
  {p \in [1..Cardinality(S) -> S] : \A i, j \in DOMAIN p : i # j => p[i] # p[j]}

\* flattenMap: Go ranges over a map in an unspecified order, so the result is
\* the set of write sequences, one per iteration order.
RECURSIVE FlattenWrites(_, _)
RECURSIVE FlattenInOrder(_, _, _, _)
FlattenInOrder(pfx, m, p, i) ==
  IF i > Len(p) THEN {<<>>}
  ELSE LET k == p[i]
           key == IF pfx # "" THEN pfx \o "." \o k ELSE k
           here == IF m[k].t = "map" THEN FlattenWrites(key, m[k].m)
                   ELSE {<<[k |-> ToUpper(key), v |-> Sprintf(m[k])]>>}
       IN {a \o b : a \in here, b \in FlattenInOrder(pfx, m, p, i + 1)}

FlattenWrites(pfx, m) ==
  UNION {FlattenInOrder(pfx, m, p, 1) : p \in Perms(DOMAIN m)}

flattenMap(tbl, m) == {ApplyWrites(tbl, ws) : ws \in FlattenWrites("", m)}

\* One line of loadKeyValue: the write it makes, or none.
\* A line of a KEY=VALUE file stored under the key as written.
KeyValueLine_NoUpper(raw) ==
  LET line == TrimSpace(raw)
      i == IndexOf(line, "=")
  IN IF line = "" \/ HasPrefix(line, "#") \/ i = 0 THEN <<>>
     ELSE <<[k |-> TrimSpace(SubSeq(line, 1, i - 1)),
             v |-> Trim(TrimSpace(SubSeq(line, i + 1, Len(line))), {"\"", "'"})]>>

KeyValueLine(raw) ==
  LET line == TrimSpace(raw)
      i == IndexOf(line, "=")
  IN IF line = "" \/ HasPrefix(line, "#") \/ i = 0 THEN <<>>
     ELSE <<[k |-> ToUpper(TrimSpace(SubSeq(line, 1, i - 1))),
             v |-> Trim(TrimSpace(SubSeq(line, i + 1, Len(line))), {"\"", "'"})]>>

RECURSIVE KeyValueWrites(_)
KeyValueWrites(lines) ==
  IF lines = <<>> THEN <<>>
  ELSE KeyValueLine(Head(lines)) \o KeyValueWrites(Tail(lines))

loadKeyValue(tbl, data) ==
  {[err |-> "", values |-> ApplyWrites(tbl, KeyValueWrites(SplitLines(data.text)))]}

\* json.Unmarshal / yaml.Unmarshal into map[string]interface{}: the decoders'
\* results are part of the file's description (data.json, data.yaml).
\* loadJSON that empties the table when the content does not parse.
loadJSON_ClearOnError(tbl, data) ==
  IF ~data.json.ok THEN {[err |-> "json", values |-> EmptyTable]}
  ELSE {[err |-> "", values |-> t] : t \in flattenMap(tbl, data.json.tree)}

loadJSON(tbl, data) ==
  IF ~data.json.ok THEN {[err |-> "json", values |-> tbl]}
  ELSE {[err |-> "", values |-> t] : t \in flattenMap(tbl, data.json.tree)}

loadYAML(tbl, data) ==
  IF ~data.yaml.ok THEN {[err |-> "yaml", values |-> tbl]}
  ELSE {[err |-> "", values |-> t] : t \in flattenMap(tbl, data.yaml.tree)}

\* path[strings.LastIndex(path, ".")+1:], lowercased.
Ext(path) == ToLower(SubSeq(path, LastIndexOf(path, ".") + 1, Len(path)))

\* The switch of LoadFile on the extension; the default case tries JSON, then
\* YAML, then key-value.
ParseAs(ext, tbl, data) ==
  CASE ext = "json" -> loadJSON(tbl, data)
    [] ext \in {"yaml", "yml"} -> loadYAML(tbl, data)
    [] ext \in {"env", "txt", "conf"} -> loadKeyValue(tbl, data)
    [] OTHER ->
         IF data.json.ok THEN loadJSON(tbl, data)
         ELSE IF data.yaml.ok THEN loadYAML(tbl, data)
         ELSE loadKeyValue(tbl, data)

\* LoadFile: the set of outcomes [err, values] of loading path into tbl.
LoadFileOutcomes(fs, tbl, path) ==
  IF path \notin DOMAIN fs THEN {[err |-> "read", values |-> tbl]}
  ELSE ParseAs(Ext(path), tbl, fs[path])


(***************************************************************************)
(* The accessors.  pfx, e and tbl are the resolver's prefix, the process    *)
(* environment and the file-value table.                                   *)
(***************************************************************************)
\* os.Getenv: "" for a variable that is unset, and for one set to "".
Getenv(e, name) == IF name \in DOMAIN e THEN e[name] ELSE ""

\* buildKey that drops the prefix.
buildKey_NoPrefix(pfx, key) == key

buildKey(pfx, key) == IF pfx # "" THEN pfx \o "_" \o key ELSE key

\* String with the table consulted before the environment.
String_FileFirst(pfx, e, tbl, key, defaultValue) ==
  LET k == ToUpper(key)
      val == Getenv(e, buildKey(pfx, k))
  IN IF k \in DOMAIN tbl THEN tbl[k]
     ELSE IF val # "" THEN val
     ELSE defaultValue

\* String without the ToUpper of its key.
String_NoUpper(pfx, e, tbl, key, defaultValue) ==
  LET val == Getenv(e, buildKey(pfx, key))
  IN IF val # "" THEN val
     ELSE IF key \in DOMAIN tbl THEN tbl[key]
     ELSE defaultValue

String(pfx, e, tbl, key, defaultValue) ==
  LET k == ToUpper(key)
      val == Getenv(e, buildKey(pfx, k))
  IN IF val # "" THEN val
     ELSE IF k \in DOMAIN tbl THEN tbl[k]
     ELSE defaultValue

\* Int that returns 0, not the default, when Atoi fails.
Int_ZeroOnError(pfx, e, tbl, key, defaultValue) ==
  LET val == String(pfx, e, tbl, key, "")
  IN IF val = "" THEN defaultValue
     ELSE IF Atoi(val).ok THEN Atoi(val).v
     ELSE 0

Int_(pfx, e, tbl, key, defaultValue) ==
  LET val == String(pfx, e, tbl, key, "")
  IN IF val = "" THEN defaultValue
     ELSE IF Atoi(val).ok THEN Atoi(val).v
     ELSE defaultValue

\* Bool that compares without lowercasing.
Bool_NoLower(pfx, e, tbl, key, defaultValue) ==
  LET val == String(pfx, e, tbl, key, "")
  IN IF val = "" THEN defaultValue
     ELSE IF val \in {"true", "1", "yes", "on"} THEN TRUE
     ELSE IF val \in {"false", "0", "no", "off"} THEN FALSE
     ELSE defaultValue

Bool(pfx, e, tbl, key, defaultValue) ==
  LET val == ToLower(String(pfx, e, tbl, key, ""))
  IN IF val = "" THEN defaultValue
     ELSE IF val \in {"true", "1", "yes", "on"} THEN TRUE
     ELSE IF val \in {"false", "0", "no", "off"} THEN FALSE
     ELSE defaultValue

\* internal/config Duration: resolve, parse, fall back.
\* Required whose panic names the bare key.
Required_BareName(pfx, e, tbl, key) ==
  LET val == String(pfx, e, tbl, key, "")
  IN IF val = ""
     THEN [panic |-> TRUE,
           res |-> "required configuration " \o ToUpper(key) \o " is not set"]
     ELSE [panic |-> FALSE, res |-> val]

\* Required: the value, or a panic with its message.
Required(pfx, e, tbl, key) ==
  LET val == String(pfx, e, tbl, key, "")
  IN IF val = ""
     THEN [panic |-> TRUE,
           res |-> "required configuration " \o buildKey(pfx, ToUpper(key))
                     \o " is not set"]
     ELSE [panic |-> FALSE, res |-> val]

ConfigDuration(pfx, e, tbl, key, defaultValue) ==
  LET val == String(pfx, e, tbl, key, "")
  IN IF val = "" THEN defaultValue
     ELSE IF ParseDuration(val).ok THEN ParseDuration(val).v
     ELSE defaultValue

\* A Duration without memory: it resolves and parses on every call.
LoaderDuration_Recompute(pfx, e, tbl, cache, key, defaultValue) ==
  LET k == ToUpper(key)
      val == String(pfx, e, tbl, k, "")
  IN IF val = "" \/ ~ParseDuration(val).ok
     THEN [res |-> defaultValue, durations |-> cache, hit |-> FALSE]
     ELSE [res |-> ParseDuration(val).v,
           durations |-> Put(cache, k, ParseDuration(val).v), hit |-> FALSE]

\* pkg/config Duration: the cache first; a successful parse is cached.
\* The result is [res, durations, hit].
LoaderDuration(pfx, e, tbl, cache, key, defaultValue) ==
  LET k == ToUpper(key)
      val == String(pfx, e, tbl, k, "")
  IN IF k \in DOMAIN cache
     THEN [res |-> cache[k], durations |-> cache, hit |-> TRUE]
     ELSE IF val = "" \/ ~ParseDuration(val).ok
     THEN [res |-> defaultValue, durations |-> cache, hit |-> FALSE]
     ELSE [res |-> ParseDuration(val).v,
           durations |-> Put(cache, k, ParseDuration(val).v), hit |-> FALSE]

\* Duration that never looks at the environment.
Duration_FileOnly(var, pfx, e, tbl, cache, key, defaultValue) ==
  IF var = "pkg" THEN LoaderDuration(pfx, <<>>, tbl, cache, key, defaultValue)
  ELSE [res |-> ConfigDuration(pfx, <<>>, tbl, key, defaultValue),
        durations |-> cache, hit |-> FALSE]

Duration(var, pfx, e, tbl, cache, key, defaultValue) ==
  IF var = "pkg" THEN LoaderDuration(pfx, e, tbl, cache, key, defaultValue)
  ELSE [res |-> ConfigDuration(pfx, e, tbl, key, defaultValue),
        durations |-> cache, hit |-> FALSE]


(***************************************************************************)
(* Load.  A struct is a sequence of fields [name, kind, config, env, dflt,  *)
(* file, settable]; kind is the field's Go type.  The run's state st is     *)
(* [values, durations, vals, err, seen]: vals are the struct's field        *)
(* values, err names the field Load failed on ("" for none), seen[i] is the *)
(* file-value table as it stood when field i was resolved.                  *)
(***************************************************************************)
\* The integer kinds of a struct field and their widths in bits; int, uint
\* and the 64-bit kinds hold every number of the inputs.
IntKinds == {"int", "int8", "int16"}

UintKinds == {"uint", "uint8", "uint16"}

Bits(kind) ==
  CASE kind \in {"int8", "uint8"} -> 8
    [] kind \in {"int16", "uint16"} -> 16
    [] OTHER -> 64

\* reflect.Value.SetInt / SetUint: the int64 / uint64 is converted to the
\* field's type, which keeps its low bits.
SetInt(kind, n) ==
  IF Bits(kind) = 64 THEN n
  ELSE LET m == n % (2 ^ Bits(kind))
       IN IF m >= 2 ^ (Bits(kind) - 1) THEN m - 2 ^ Bits(kind) ELSE m

SetUint(kind, n) == IF Bits(kind) = 64 THEN n ELSE n % (2 ^ Bits(kind))

ParseAndSetInt(kind, value) ==
  IF Atoi(value).ok THEN Ok(SetInt(kind, Atoi(value).v)) ELSE Fail

ParseAndSetUint(kind, value) ==
  IF ParseUint(value).ok THEN Ok(SetUint(kind, ParseUint(value).v)) ELSE Fail

\* Config.setField (internal/config): a duration is an int64 kind.
ConfigSetField(kind, value) ==
  CASE kind = "string" -> Ok(value)
    [] kind = "duration" -> ParseDuration(value)
    [] kind \in IntKinds -> ParseAndSetInt(kind, value)
    [] kind \in UintKinds -> ParseAndSetUint(kind, value)
    [] kind = "bool" ->
         IF ParseBool(value).ok THEN ParseBool(value)
         ELSE Ok(ToLower(value) \in {"yes", "on", "1"})
    [] OTHER -> Fail

\* Loader.setField (pkg/config): durations never reach it, Load handles them.
LoaderSetField(kind, value) ==
  CASE kind = "string" -> Ok(value)
    [] kind \in IntKinds \cup {"duration"} -> ParseAndSetInt(kind, value)
    [] kind \in UintKinds -> ParseAndSetUint(kind, value)
    [] kind = "bool" ->
         IF ParseBool(value).ok THEN ParseBool(value)
         ELSE Ok(ToLower(value) \in {"yes", "on", "1"})
    [] OTHER -> Fail

setField(var, kind, value) ==
  IF var = "pkg" THEN LoaderSetField(kind, value) ELSE ConfigSetField(kind, value)

ConfigKey(f) == IF f.config # "" THEN f.config ELSE ToLower(f.name)

\* The environment variable Load reads for a field (both variants' code).
FieldEnvKey(pfx, f) ==
  IF f.env # "" THEN f.env
  ELSE IF pfx # "" THEN pfx \o "_" \o ToUpper(ConfigKey(f))
  ELSE ToUpper(ConfigKey(f))

\* "Priority: env var > file > default" of Load.
FieldValue(pfx, e, tbl, f) ==
  LET envVal == Getenv(e, FieldEnvKey(pfx, f))
      k == ToUpper(ConfigKey(f))
  IN IF envVal # "" THEN envVal
     ELSE IF k \in DOMAIN tbl THEN tbl[k]
     ELSE f.dflt

\* One field of the loop, after its file (if any) was loaded: the run's state
\* after it.  A state with err # "" ends the loop.
ResolveField(pfx, e, f, i, st) ==
  LET value == FieldValue(pfx, e, st.values, f)
      r == setField("internal", f.kind, value)
  IN IF value = "" THEN st
     ELSE IF ~r.ok THEN [st EXCEPT !.err = f.name]
     ELSE [st EXCEPT !.vals[i] = r.v]

\* pkg/config: the special case of a time.Duration field.
LoaderDurationField(pfx, e, f, i, st) ==
  LET d == ParseDuration(f.dflt)
      tbl == IF f.dflt # "" THEN Put(st.values, ToUpper(ConfigKey(f)), f.dflt)
             ELSE st.values
      r == LoaderDuration(pfx, e, tbl, st.durations, ConfigKey(f),
                          IF f.dflt # "" THEN d.v ELSE 0)
  IN IF f.dflt # "" /\ ~d.ok THEN [st EXCEPT !.err = f.name]
     ELSE [st EXCEPT !.values = tbl, !.durations = r.durations, !.vals[i] = r.res]

LoaderResolveField(pfx, e, f, i, st) ==
  LET value == FieldValue(pfx, e, st.values, f)
      r == setField("pkg", f.kind, value)
  IN IF f.kind = "duration" THEN LoaderDurationField(pfx, e, f, i, st)
     ELSE IF value = "" THEN st
     ELSE IF ~r.ok THEN [st EXCEPT !.err = f.name]
     ELSE [st EXCEPT !.vals[i] = r.v]

\* The loop of Load from field i on: the set of final states of the run (a
\* set because a nested LoadFile may have several outcomes).  The error of a
\* nested LoadFile is dropped.
RECURSIVE LoadFields(_, _, _, _, _, _, _)
LoadFields(var, pfx, e, fs, S, i, st) ==
  IF i > Len(S) \/ st.err # "" THEN {st}
  ELSE IF ~S[i].settable THEN LoadFields(var, pfx, e, fs, S, i + 1, st)
  ELSE LET f == S[i]
           tables == IF f.file # ""
                     THEN {o.values : o \in LoadFileOutcomes(fs, st.values, f.file)}
                     ELSE {st.values}
           step(t) == LET s0 == [st EXCEPT !.values = t, !.seen[i] = t]
                      IN IF var = "pkg" THEN LoaderResolveField(pfx, e, f, i, s0)
                         ELSE ResolveField(pfx, e, f, i, s0)
       IN UNION {LoadFields(var, pfx, e, fs, S, i + 1, step(t)) : t \in tables}

\* Load(&target): target holds the struct's field values before the call.
LoadOutcomes(var, pfx, e, fs, tbl, cache, S, target) ==
  LoadFields(var, pfx, e, fs, S, 1,
             [values |-> tbl, durations |-> cache, vals |-> target, err |-> "",
              seen |-> [i \in 1..Len(S) |-> tbl]])

ZeroValue(kind) ==
  CASE kind = "string" -> ""
    [] kind = "bool" -> FALSE
    [] OTHER -> 0

ZeroStruct(S) == [i \in 1..Len(S) |-> ZeroValue(S[i].kind)]

\* A value the caller put in a field before Load.
PresetValue(kind) ==
  CASE kind = "string" -> "old"
    [] kind = "bool" -> TRUE
    [] kind = "duration" -> 99000
    [] OTHER -> 99

PresetStruct(S) == [i \in 1..Len(S) |-> PresetValue(S[i].kind)]

\* The structs a caller hands to Load: fresh, or holding earlier values.
Targets(S) == {ZeroStruct(S), PresetStruct(S)}


(***************************************************************************)
(* The inputs: callers' keys and defaults, the environment's variables,     *)
(* the files on disk and the structs handed to Load.                        *)
(***************************************************************************)
Variants == {"pkg", "internal"}

Prefixes == {"", "app"}

Keys == {"ttl", "TTL", "port"}

EnvNames == {"TTL", "APP_TTL"}

EnvVals == {"", "10s", "zz", "7", "on"}

StringDefaults == {"", "dflt"}

IntDefaults == {42}

DurationDefaults == {5000}

Parsed(tree) == [ok |-> TRUE, tree |-> tree]

NoParse == [ok |-> FALSE, tree |-> <<>>]

\* The files on disk: the text, and what the JSON and the YAML decoder make
\* of it.
FS ==
  ("a.env" :> [text |-> "# c\nTtl = \"45s\"\nport=9000\n",
               json |-> NoParse, yaml |-> NoParse])
  @@ ("b.json" :> [text |-> "{\"ttl\": \"60s\"}",
                   json |-> Parsed("ttl" :> StrLeaf("60s")),
                   yaml |-> Parsed("ttl" :> StrLeaf("60s"))])
  @@ ("c.yaml" :> [text |-> "port: 7777\n",
                   json |-> NoParse,
                   yaml |-> Parsed("port" :> IntLeaf(7777))])
  @@ ("bad.json" :> [text |-> "{\"ttl\": ",
                     json |-> NoParse, yaml |-> NoParse])
  @@ ("bad.yaml" :> [text |-> "ttl: [1,\n",
                     json |-> NoParse, yaml |-> NoParse])

Paths == DOMAIN FS \cup {"nope.json"}

Field(name, kind, config, envTag, dflt, file) ==
  [name |-> name, kind |-> kind, config |-> config, env |-> envTag,
   dflt |-> dflt, file |-> file, settable |-> TRUE]

Structs ==
  { <<Field("Ttl", "duration", "ttl", "", "30s", "")>>,
    <<Field("Ttl", "duration", "ttl", "TTL", "", "")>>,
    <<Field("Ttl", "int", "", "", "8", "")>>,
    <<Field("On", "bool", "ttl", "TTL", "", "")>>,
    <<Field("Port", "int", "port", "", "", "c.yaml")>>,
    <<Field("Ttl", "int", "", "", "", ""), Field("Port", "string", "", "", "x", "")>>,
    <<Field("First", "string", "port", "", "d1", ""),
      Field("Port", "int", "port", "", "", "c.yaml"),
      Field("Ttl", "int", "", "", "", ""),
      Field("Last", "string", "port", "", "", "")>>,
    <<Field("Ttl", "duration", "ttl", "", "30s", "b.json"),
      Field("N", "int", "ttl", "", "", "")>>,
    <<Field("Port", "int", "port", "", "8", "bad.json"),
      Field("Ttl", "string", "ttl", "", "", "nope.json")>>,
    <<Field("S", "int16", "s", "", "300", ""),
      Field("B", "int8", "b", "", "300", ""),
      Field("U", "uint8", "u", "", "256", "")>> }

(***************************************************************************)
(* The state machine.  The caller makes one call at a time: last is the     *)
(* call that has just returned, with its arguments and its result, until    *)
(* the caller takes the result (Return) and goes on.                        *)
(***************************************************************************)
None == [op |-> "none"]

\* One caller: no goroutines share the resolver.
NoMiddleware ==
  /\ middleware = <<>>
  /\ routes = <<>>
  /\ registered = <<>>
  /\ order = <<>>
  /\ served = ""

NotStarted ==
  /\ startPc = "init"
  /\ serve = "none"
  /\ errChan = <<>>
  /\ quit = <<>>
  /\ conns = 0
  /\ closed = FALSE
  /\ startRes = ""

NoLogger ==
  /\ logImpl = "slog"
  /\ loggers = <<>>
  /\ logged = None

NoServer ==
  /\ NoMiddleware
  /\ impl = "pkg"
  /\ NotStarted
  /\ NoLogger

OthersIdle ==
  /\ goroutines = <<>>
  /\ fatal = FALSE
  /\ NoServer

\* New(prefix)
Init ==
  /\ variant \in Variants
  /\ prefix \in {ToUpper(p) : p \in Prefixes}
  /\ env = <<>>
  /\ files = FS
  /\ values = EmptyTable
  /\ durations = <<>>
  /\ last = None
  /\ OthersIdle

Idle == last = None

Setenv(name, val) ==
  /\ Idle
  /\ env' = Put(env, name, val)
  /\ last' = None
  /\ UNCHANGED <<others, variant, prefix, files, values, durations>>

Unsetenv(name) ==
  /\ Idle
  /\ name \in DOMAIN env
  /\ env' = [n \in DOMAIN env \ {name} |-> env[n]]
  /\ last' = None
  /\ UNCHANGED <<others, variant, prefix, files, values, durations>>

LoadFile(path) ==
  /\ Idle
  /\ \E o \in LoadFileOutcomes(files, values, path) :
       /\ values' = o.values
       /\ last' = [op |-> "LoadFile", path |-> path, err |-> o.err,
                   before |-> values]
  /\ UNCHANGED <<others, variant, prefix, env, files, durations>>

DoString(key, d) ==
  /\ Idle
  /\ last' = [op |-> "String", key |-> key, dflt |-> d,
              res |-> String(prefix, env, values, key, d)]
  /\ UNCHANGED <<others, variant, prefix, env, files, values, durations>>

DoInt(key, d) ==
  /\ Idle
  /\ last' = [op |-> "Int", key |-> key, dflt |-> d,
              res |-> Int_(prefix, env, values, key, d)]
  /\ UNCHANGED <<others, variant, prefix, env, files, values, durations>>

DoBool(key, d) ==
  /\ Idle
  /\ last' = [op |-> "Bool", key |-> key, dflt |-> d,
              res |-> Bool(prefix, env, values, key, d)]
  /\ UNCHANGED <<others, variant, prefix, env, files, values, durations>>

DoDuration(key, d) ==
  LET r == Duration(variant, prefix, env, values, durations, key, d)
  IN /\ Idle
     /\ durations' = r.durations
     /\ last' = [op |-> "Duration", key |-> key, dflt |-> d, res |-> r.res,
                 cache |-> durations]
     /\ UNCHANGED <<others, variant, prefix, env, files, values>>

\* A panic of Required is recovered by the caller (Return).
DoRequired(key) ==
  LET r == Required(prefix, env, values, key)
  IN /\ Idle
     /\ last' = [op |-> "Required", key |-> key, panic |-> r.panic, res |-> r.res]
     /\ UNCHANGED <<others, variant, prefix, env, files, values, durations>>

DoLoad(S) ==
  /\ Idle
  /\ \E target \in Targets(S) :
     \E st \in LoadOutcomes(variant, prefix, env, files, values, durations, S,
                            target) :
       /\ values' = st.values
       /\ durations' = st.durations
       /\ last' = [op |-> "Load", struct |-> S, res |-> st.vals, err |-> st.err,
                   seen |-> st.seen, target |-> target, before |-> values]
  /\ UNCHANGED <<others, variant, prefix, env, files>>

Return ==
  /\ ~Idle
  /\ last' = None
  /\ UNCHANGED <<others, variant, prefix, env, files, values, durations>>

Next ==
  \/ \E name \in EnvNames, val \in EnvVals : Setenv(name, val)
  \/ \E name \in EnvNames : Unsetenv(name)
  \/ \E path \in Paths : LoadFile(path)
  \/ \E key \in Keys, d \in StringDefaults : DoString(key, d)
  \/ \E key \in Keys, d \in IntDefaults : DoInt(key, d)
  \/ \E key \in Keys, d \in BOOLEAN : DoBool(key, d)
  \/ \E key \in Keys, d \in DurationDefaults : DoDuration(key, d)
  \/ \E key \in Keys : DoRequired(key)
  \/ \E S \in Structs : DoLoad(S)
  \/ Return

Spec == Init /\ [][Next]_vars


(***************************************************************************)
(* Accessors on drawn resolver states: any environment and any file-value   *)
(* table over the strings of AccVals (every one can be put in a variable,   *)
(* or in a file as a JSON string), then accessor calls only.                *)
(***************************************************************************)
AccVals ==
  {"", "true", "TRUE", "1", "yes", "Yes", "on", "false", "False", "0", "no",
   "off", "OFF", "maybe", "2", "10s"}

InitAcc ==
  /\ variant \in Variants
  /\ prefix \in {ToUpper(p) : p \in Prefixes}
  /\ env \in {<<>>} \cup {n :> v : n \in EnvNames, v \in AccVals}
  /\ files = FS
  /\ values \in {EmptyTable} \cup {"TTL" :> v : v \in AccVals}
  /\ durations = <<>>
  /\ last = None
  /\ OthersIdle

NextAcc ==
  \/ \E key \in Keys, d \in StringDefaults : DoString(key, d)
  \/ \E key \in Keys, d \in IntDefaults : DoInt(key, d)
  \/ \E key \in Keys, d \in BOOLEAN : DoBool(key, d)
  \/ \E key \in Keys, d \in DurationDefaults : DoDuration(key, d)
  \/ Return

SpecAcc == InitAcc /\ [][NextAcc]_vars

(***************************************************************************)
(* One flat document in the three formats, loaded into a fresh resolver.    *)
(* A document is a sequence of [k, v] entries, v an integer, a string or a  *)
(* boolean; files holds its three renderings.                               *)
(***************************************************************************)
IntScalar(n) == [t |-> "int", n |-> n]
StrScalar(s) == [t |-> "str", s |-> s]
BoolScalar(b) == [t |-> "bool", b |-> b]

Entry(k, v) == [k |-> k, v |-> v]

FlatDocs ==
  { <<Entry("port", IntScalar(9999)), Entry("host", StrScalar("example.com")),
      Entry("debug", BoolScalar(TRUE))>>,
    <<Entry("port", IntScalar(1000000))>>,
    <<Entry("debug", BoolScalar(FALSE)), Entry("port", IntScalar(80))>>,
    <<Entry("host", StrScalar("h")), Entry("port", IntScalar(123456))>> }

FmtKeys == {"port", "host", "debug"}

DocKeys(doc) == {doc[i].k : i \in 1..Len(doc)}

DocValue(doc, k) == (CHOOSE i \in 1..Len(doc) : doc[i].k = k)

\* What json.Unmarshal makes of the document written as a JSON object: every
\* number is a float64.
JSONTree(doc) ==
  [k \in DocKeys(doc) |->
     LET v == doc[DocValue(doc, k)].v
     IN CASE v.t = "int" -> FloatLeaf(v.n)
          [] v.t = "str" -> StrLeaf(v.s)
          [] v.t = "bool" -> BoolLeaf(v.b)]

\* What yaml.Unmarshal makes of it written as a YAML mapping: an integer is
\* an int.
YAMLTree(doc) ==
  [k \in DocKeys(doc) |->
     LET v == doc[DocValue(doc, k)].v
     IN CASE v.t = "int" -> IntLeaf(v.n)
          [] v.t = "str" -> StrLeaf(v.s)
          [] v.t = "bool" -> BoolLeaf(v.b)]

ScalarText(v) ==
  CASE v.t = "int" -> Itoa(v.n)
    [] v.t = "str" -> v.s
    [] v.t = "bool" -> (IF v.b THEN "true" ELSE "false")

\* The document as KEY=VALUE lines.
RECURSIVE KVText(_)
KVText(doc) ==
  IF doc = <<>> THEN ""
  ELSE ToUpper(Head(doc).k) \o "=" \o ScalarText(Head(doc).v) \o "\n"
       \o KVText(Tail(doc))

DocFS(doc) ==
  ("c.json" :> [text |-> "", json |-> Parsed(JSONTree(doc)),
                yaml |-> Parsed(YAMLTree(doc))])
  @@ ("c.yaml" :> [text |-> "", json |-> NoParse, yaml |-> Parsed(YAMLTree(doc))])
  @@ ("c.env" :> [text |-> KVText(doc), json |-> NoParse, yaml |-> NoParse])

InitFmt ==
  /\ variant \in Variants
  /\ prefix \in {ToUpper(p) : p \in Prefixes}
  /\ env = <<>>
  /\ files \in {DocFS(doc) : doc \in FlatDocs}
  /\ values = EmptyTable
  /\ durations = <<>>
  /\ last = None
  /\ OthersIdle

\* The resolver holds exactly one rendering of the document.
LoadedOnce ==
  \E p \in DOMAIN files : \E o \in LoadFileOutcomes(files, EmptyTable, p) :
    o.err = "" /\ o.values = values

LoadFresh(path) == values = EmptyTable /\ LoadFile(path)

NextFmt ==
  \/ \E path \in DOMAIN files : LoadFresh(path)
  \/ \E key \in FmtKeys, d \in StringDefaults : LoadedOnce /\ DoString(key, d)
  \/ \E key \in FmtKeys, d \in IntDefaults : LoadedOnce /\ DoInt(key, d)
  \/ \E key \in FmtKeys, d \in BOOLEAN : LoadedOnce /\ DoBool(key, d)
  \/ Return

SpecFmt == InitFmt /\ [][NextFmt]_vars


(***************************************************************************)
(* Files of every kind of name and content, each loaded into a fresh       *)
(* resolver and read back with String.                                     *)
(***************************************************************************)
PortJSON ==
  [text |-> "{\"port\": 8080}", json |-> Parsed("port" :> FloatLeaf(8080)),
   yaml |-> Parsed("port" :> IntLeaf(8080))]

PortYAML ==
  [text |-> "port: 8080\n", json |-> NoParse,
   yaml |-> Parsed("port" :> IntLeaf(8080))]

PortKV == [text |-> "port=8080\n", json |-> NoParse, yaml |-> NoParse]

\* The values of a key-value file as written after the "=", by key.
QuoteCases ==
  << [k |-> "PLAIN", raw |-> "x"],
     [k |-> "DQ", raw |-> "\"x\""],
     [k |-> "SQ", raw |-> "'x'"],
     [k |-> "INNER", raw |-> "\"it's\""],
     [k |-> "TWICE", raw |-> "\"\"x\"\""],
     [k |-> "NESTED", raw |-> "'\"x\"'"],
     [k |-> "MIXED", raw |-> "\"x'"],
     [k |-> "OPEN", raw |-> "\"x"],
     [k |-> "CLOSE", raw |-> "x'"],
     [k |-> "EMPTYQ", raw |-> "\"\""],
     [k |-> "EMPTY", raw |-> ""] >>

RECURSIVE QuoteText(_)
QuoteText(cases) ==
  IF cases = <<>> THEN ""
  ELSE Head(cases).k \o "=" \o Head(cases).raw \o "\n" \o QuoteText(Tail(cases))

\* Two keys of one document that normalise to the same table key.
CaseDup(t) == ("port" :> [t |-> t, n |-> 1]) @@ ("PORT" :> [t |-> t, n |-> 2])

DottedDup == ("a.b" :> IntLeaf(1)) @@ ("a" :> MapNode("b" :> IntLeaf(2)))

ParseFS ==
  ("app.JSON" :> PortJSON)
  @@ ("app.yml" :> PortYAML)
  @@ ("app.conf" :> PortKV)
  @@ ("app.cfg" :> PortJSON)
  @@ ("app.ini" :> PortKV)
  @@ ("conf.d/settings" :> PortYAML)
  @@ ("settings" :> PortYAML)
  @@ ("conf" :> PortJSON)
  @@ ("json" :> PortKV)
  @@ ("q.env" :> [text |-> QuoteText(QuoteCases), json |-> NoParse,
                  yaml |-> NoParse])
  @@ ("dup.json" :> [text |-> "{\"port\": 1, \"PORT\": 2}",
                     json |-> Parsed(CaseDup("float")),
                     yaml |-> Parsed(CaseDup("int"))])
  @@ ("nest.yaml" :> [text |-> "a.b: 1\na:\n  b: 2\n", json |-> NoParse,
                      yaml |-> Parsed(DottedDup)])

ParseKeys == {"port", "a.b", "empty", "twice"}

InitParse ==
  /\ variant \in Variants
  /\ prefix \in {ToUpper(p) : p \in Prefixes}
  /\ env = <<>>
  /\ files = ParseFS
  /\ values = EmptyTable
  /\ durations = <<>>
  /\ last = None
  /\ OthersIdle

NextParse ==
  \/ \E path \in DOMAIN files : LoadFresh(path)
  \/ \E key \in ParseKeys, d \in StringDefaults : DoString(key, d)
  \/ Return

SpecParse == InitParse /\ [][NextParse]_vars


(***************************************************************************)
(* Goroutines sharing one resolver after construction and file loading:    *)
(* each accessor call is the sequence of its accesses to the resolver's     *)
(* maps.  Neither variant holds a lock.  An unsynchronized map write that   *)
(* is concurrent with another access of the same map is a data race: the    *)
(* Go runtime may let it pass or throw a fatal error.                       *)
(***************************************************************************)
Goroutines == {"g1", "g2"}

ConcOps == {"String", "Int", "Bool", "Duration", "Required"}

ConcKeys == {"ttl", "port"}

GoIdle == [pc |-> "idle"]

InitConc ==
  /\ variant \in Variants
  /\ prefix \in {ToUpper(p) : p \in Prefixes}
  /\ env \in {<<>>, "TTL" :> "10s"}
  /\ files = FS
  /\ values \in {EmptyTable}
                 \cup {o.values : o \in LoadFileOutcomes(FS, EmptyTable, "a.env")}
  /\ durations = <<>>
  /\ last = None
  /\ goroutines = [g \in Goroutines |-> GoIdle]
  /\ fatal = FALSE
  /\ NoServer

\* A goroutine enters an accessor.  Loader.Duration starts at its cache, every
\* other accessor at String's lookup.
GoCall(g, op, key) ==
  /\ ~fatal
  /\ goroutines[g].pc = "idle"
  /\ goroutines' =
       [goroutines EXCEPT ![g] =
          [pc |-> IF op = "Duration" /\ variant = "pkg" THEN "cacheRead" ELSE "read",
           op |-> op, key |-> key]]
  /\ UNCHANGED <<variant, prefix, env, files, values, durations, last, fatal,
                  webVars, logVars>>

\* if cached, ok := l.durations[key]; ok { return cached }
GoCacheRead(g) ==
  LET me == goroutines[g]
      k == ToUpper(me.key)
  IN /\ ~fatal
     /\ me.pc = "cacheRead"
     /\ goroutines' =
          [goroutines EXCEPT ![g] =
             IF k \in DOMAIN durations
             THEN [me EXCEPT !.pc = "done"] @@ [res |-> durations[k]]
             ELSE [me EXCEPT !.pc = "read"]]
     /\ UNCHANGED <<variant, prefix, env, files, values, durations, last, fatal,
                  webVars, logVars>>

\* The result of an accessor from the environment and the values map; for
\* Loader.Duration, a parsed duration is still to be cached.
GoResolve(g) ==
  LET me == goroutines[g]
      val == String(prefix, env, values, me.key, "")
      d == ParseDuration(val)
      req == Required(prefix, env, values, me.key)
      done(r) == [me EXCEPT !.pc = "done"] @@ [res |-> r]
  IN /\ ~fatal
     /\ me.pc = "read"
     /\ goroutines' =
          [goroutines EXCEPT ![g] =
             CASE me.op = "String" -> done(val)
               [] me.op = "Int" ->
                    done(Int_(prefix, env, values, me.key, CHOOSE x \in IntDefaults : TRUE))
               [] me.op = "Bool" -> done(Bool(prefix, env, values, me.key, FALSE))
               [] me.op = "Required" -> done(req.res)
               [] me.op = "Duration" ->
                    IF variant = "pkg" /\ val # "" /\ d.ok
                    THEN [me EXCEPT !.pc = "cacheWrite"] @@ [res |-> d.v]
                    ELSE done(ConfigDuration(prefix, env, values, me.key,
                                             CHOOSE x \in DurationDefaults : TRUE))]
     /\ UNCHANGED <<variant, prefix, env, files, values, durations, last, fatal,
                  webVars, logVars>>

\* Another goroutine is about to read or write the durations map.
Racing(g) ==
  \E h \in Goroutines \ {g} : goroutines[h].pc \in {"cacheRead", "cacheWrite"}

\* l.durations[key] = duration
GoCacheWrite(g) ==
  LET me == goroutines[g]
  IN /\ ~fatal
     /\ me.pc = "cacheWrite"
     /\ durations' = Put(durations, ToUpper(me.key), me.res)
     /\ goroutines' = [goroutines EXCEPT ![g] = [me EXCEPT !.pc = "done"]]
     /\ UNCHANGED <<variant, prefix, env, files, values, last, fatal,
                  webVars, logVars>>

\* The runtime detects the concurrent map access and ends the process.
GoThrow(g) ==
  /\ ~fatal
  /\ goroutines[g].pc = "cacheWrite"
  /\ Racing(g)
  /\ fatal' = TRUE
  /\ UNCHANGED <<variant, prefix, env, files, values, durations, last, goroutines,
                  webVars, logVars>>

GoReturn(g) ==
  /\ ~fatal
  /\ goroutines[g].pc = "done"
  /\ goroutines' = [goroutines EXCEPT ![g] = GoIdle]
  /\ UNCHANGED <<variant, prefix, env, files, values, durations, last, fatal,
                  webVars, logVars>>

NextConc ==
  \/ \E g \in Goroutines, op \in ConcOps, key \in ConcKeys : GoCall(g, op, key)
  \/ \E g \in Goroutines : GoCacheRead(g)
  \/ \E g \in Goroutines : GoResolve(g)
  \/ \E g \in Goroutines : GoCacheWrite(g)
  \/ \E g \in Goroutines : GoThrow(g)
  \/ \E g \in Goroutines : GoReturn(g)

SpecConc == InitConc /\ [][NextConc]_vars


(***************************************************************************)
(* The HTTP server's middleware (pkg/server and the stdlib implementation   *)
(* hold the same code).  A handler is the function registered for a         *)
(* pattern, or a middleware around a handler; serving a request appends to  *)
(* order what each part does, as the middleware of TestMiddlewareOrder do.  *)
(***************************************************************************)
MaxMiddleware == 3

Middlewares == {"mw1", "mw2"}

Patterns == {"/a", "/b"}

HandlerFunc(pattern) == [kind |-> "func", pattern |-> pattern]

\* mw(next)
Wrap(mw, next) == [kind |-> "mw", mw |-> mw, next |-> next]

\* The last added middleware becomes the outermost wrapper.
RECURSIVE ApplyMiddleware_Forward(_, _)
ApplyMiddleware_Forward(mws, handler) ==
  IF mws = <<>> THEN handler
  ELSE ApplyMiddleware_Forward(Tail(mws), Wrap(Head(mws), handler))

\* for i := len(s.middleware) - 1; i >= 0; i-- { handler = s.middleware[i](handler) }
RECURSIVE ApplyMiddleware(_, _)
ApplyMiddleware(mws, handler) ==
  IF mws = <<>> THEN handler
  ELSE ApplyMiddleware(SubSeq(mws, 1, Len(mws) - 1), Wrap(mws[Len(mws)], handler))

\* handler.ServeHTTP(w, r): what is appended to order.
RECURSIVE ServeHTTP(_)
ServeHTTP(handler) ==
  IF handler.kind = "func" THEN <<"handler">>
  ELSE <<handler.mw \o "-before">> \o ServeHTTP(handler.next)
         \o <<handler.mw \o "-after">>

\* New(cfg), and no resolver in use.
InitMw ==
  /\ variant = "pkg"
  /\ prefix = ""
  /\ env = <<>>
  /\ files = <<>>
  /\ values = EmptyTable
  /\ durations = <<>>
  /\ last = None
  /\ goroutines = <<>>
  /\ fatal = FALSE
  /\ NoServer

\* A Use that also wraps the handlers registered so far (a router-level
\* middleware list, as gorilla's mux.Router.Use).
Use_Rewrap(mw) ==
  /\ Len(middleware) < MaxMiddleware
  /\ middleware' = Append(middleware, mw)
  /\ routes' = [p \in DOMAIN routes |->
                  ApplyMiddleware(Append(middleware, mw), HandlerFunc(p))]
  /\ UNCHANGED <<cfgVars, concVars, logVars, registered, order, served, startVars>>

Use(mw) ==
  /\ Len(middleware) < MaxMiddleware
  /\ middleware' = Append(middleware, mw)
  /\ UNCHANGED <<cfgVars, concVars, logVars, routes, registered, order, served, startVars>>

\* Handle / HandleFunc.  http.ServeMux panics on a pattern registered twice.
Handle(pattern) ==
  /\ pattern \notin DOMAIN routes
  /\ routes' = Put(routes, pattern, ApplyMiddleware(middleware, HandlerFunc(pattern)))
  /\ registered' = Put(registered, pattern, middleware)
  /\ UNCHANGED <<cfgVars, concVars, logVars, middleware, order, served, startVars>>

\* s.mux.ServeHTTP(w, req) for a request of a registered pattern.
Request(pattern) ==
  /\ pattern \in DOMAIN routes
  /\ order' = ServeHTTP(routes[pattern])
  /\ served' = pattern
  /\ UNCHANGED <<cfgVars, concVars, logVars, middleware, routes, registered, startVars>>

NextMw ==
  \/ \E mw \in Middlewares : Use(mw)
  \/ \E pattern \in Patterns : Handle(pattern)
  \/ \E pattern \in Patterns : Request(pattern)

SpecMw == InitMw /\ [][NextMw]_vars


(***************************************************************************)
(* Start and Shutdown of the four Server implementations.  pkg/server, the  *)
(* stdlib and the gorilla implementation hold the same Start; fiber's       *)
(* waits on errChan alone.  The processes are the caller of Start, the      *)
(* goroutine Start spawns for ListenAndServe / Listen, the operating        *)
(* system delivering signals, the clients, and a goroutine that may call    *)
(* Shutdown.                                                                *)
(***************************************************************************)
MaxConns == 2

Impls == {"pkg", "stdlib", "gorilla", "fiber"}

Signals == {"SIGINT", "SIGTERM"}

InitStart ==
  /\ variant = "pkg"
  /\ prefix = ""
  /\ env = <<>>
  /\ files = <<>>
  /\ values = EmptyTable
  /\ durations = <<>>
  /\ last = None
  /\ goroutines = <<>>
  /\ fatal = FALSE
  /\ NoMiddleware
  /\ impl \in Impls
  /\ NotStarted
  /\ NoLogger

\* Start up to its blocking receive: signal.Notify (not in fiber), the
\* channels, the go statement.
StartCall ==
  /\ startPc = "init"
  /\ startPc' = IF impl = "fiber" THEN "recv" ELSE "select"
  /\ serve' = "starting"
  /\ UNCHANGED <<cfgVars, concVars, logVars, mwVars, impl, errChan, quit, conns, closed,
                 startRes>>

\* The goroutine: ListenAndServe / Listen cannot bind, and sends its error.
ListenFails ==
  /\ serve = "starting"
  /\ ~closed
  /\ serve' = "exited"
  /\ errChan' = <<"listen">>
  /\ UNCHANGED <<cfgVars, concVars, logVars, mwVars, impl, startPc, quit, conns, closed,
                 startRes>>

\* The goroutine: the listener is bound and serves.
Listen ==
  /\ serve = "starting"
  /\ ~closed
  /\ serve' = "serving"
  /\ UNCHANGED <<cfgVars, concVars, logVars, mwVars, impl, startPc, errChan, quit, conns,
                 closed, startRes>>

\* The goroutine: after Shutdown, ListenAndServe returns http.ErrServerClosed
\* (fiber's Listen returns nil), and nothing is sent on errChan.
ServeExit ==
  /\ serve \in {"starting", "serving"}
  /\ closed
  /\ serve' = "exited"
  /\ UNCHANGED <<cfgVars, concVars, logVars, mwVars, impl, startPc, errChan, quit, conns,
                 closed, startRes>>

\* A client's request begins, and ends.
Accept ==
  /\ serve = "serving"
  /\ ~closed
  /\ conns < MaxConns
  /\ conns' = conns + 1
  /\ UNCHANGED <<cfgVars, concVars, logVars, mwVars, impl, startPc, serve, errChan, quit,
                 closed, startRes>>

Finish ==
  /\ conns > 0
  /\ conns' = conns - 1
  /\ UNCHANGED <<cfgVars, concVars, logVars, mwVars, impl, startPc, serve, errChan, quit,
                 closed, startRes>>

\* SIGINT / SIGTERM: queued on quit where Start called signal.Notify (dropped
\* when the channel is full); the process is killed where nothing is notified.
Signal(sig) ==
  /\ startPc \notin {"init", "returned", "killed"}
  /\ IF impl = "fiber"
     THEN startPc' = "killed" /\ quit' = quit
     ELSE /\ startPc' = startPc
          /\ quit' = IF quit = <<>> THEN <<sig>> ELSE quit
  /\ UNCHANGED <<cfgVars, concVars, logVars, mwVars, impl, serve, errChan, conns, closed,
                 startRes>>

\* case err := <-errChan: return err   (fiber: err := <-errChan)
SelectErr ==
  /\ startPc \in {"select", "recv"}
  /\ errChan # <<>>
  /\ startRes' = Head(errChan)
  /\ errChan' = Tail(errChan)
  /\ startPc' = "returned"
  /\ UNCHANGED <<cfgVars, concVars, logVars, mwVars, impl, serve, quit, conns, closed>>

\* case sig := <-quit
SelectQuit ==
  /\ startPc = "select"
  /\ quit # <<>>
  /\ quit' = Tail(quit)
  /\ startPc' = "shutdown"
  /\ UNCHANGED <<cfgVars, concVars, logVars, mwVars, impl, serve, errChan, conns, closed,
                 startRes>>

\* Start calls s.httpServer.Shutdown(ctx): the listener closes.
StartShutdown ==
  /\ startPc = "shutdown"
  /\ closed' = TRUE
  /\ startPc' = "draining"
  /\ UNCHANGED <<cfgVars, concVars, logVars, mwVars, impl, serve, errChan, quit, conns,
                 startRes>>

\* Shutdown returns nil when no request is left, or ctx's error at the
\* deadline; Start returns.
ShutdownReturns ==
  /\ startPc = "draining"
  /\ startRes' = IF conns = 0 THEN "nil" ELSE "forced"
  /\ startPc' = "returned"
  /\ UNCHANGED <<cfgVars, concVars, logVars, mwVars, impl, serve, errChan, quit, conns,
                 closed>>

\* Another goroutine calls s.Shutdown(ctx) while Start is blocked.
Shutdown ==
  /\ startPc \in {"select", "recv"}
  /\ ~closed
  /\ impl = "fiber" => serve = "serving"
  /\ closed' = TRUE
  /\ UNCHANGED <<cfgVars, concVars, logVars, mwVars, impl, startPc, serve, errChan, quit,
                 conns, startRes>>

NextStart ==
  \/ StartCall
  \/ ListenFails
  \/ Listen
  \/ ServeExit
  \/ Accept
  \/ Finish
  \/ \E sig \in Signals : Signal(sig)
  \/ SelectErr
  \/ SelectQuit
  \/ StartShutdown
  \/ ShutdownReturns
  \/ Shutdown

\* The Go scheduler runs every goroutine that can take a step, and a context
\* with a timeout expires; signals, clients and the call of Shutdown are not
\* bound to happen.
FairStart ==
  /\ WF_vars(StartCall)
  /\ WF_vars(ListenFails \/ Listen)
  /\ WF_vars(ServeExit)
  /\ WF_vars(SelectErr)
  /\ WF_vars(SelectQuit)
  /\ WF_vars(StartShutdown)
  /\ WF_vars(ShutdownReturns)

SpecStart == InitStart /\ [][NextStart]_vars /\ FairStart


(***************************************************************************)
(* The logger, in its two implementations: the one that keeps level, out    *)
(* and fields itself ("legacy"), and the one over log/slog ("slog"), where  *)
(* the level and the output belong to the slog handler.                     *)
(***************************************************************************)
DebugLevel == 0

InfoLevel == 1

WarnLevel == 2

ErrorLevel == 3

Levels == {DebugLevel, InfoLevel, WarnLevel, ErrorLevel}

MaxLoggers == 3

Writers == {"stdout", "buf"}

FieldKeys == {"user", "ip"}

LogImpls == {"legacy", "slog"}

\* slog.LevelDebug, LevelInfo, LevelWarn, LevelError.
levelToSlogLevel(level) ==
  CASE level = DebugLevel -> -4
    [] level = InfoLevel -> 0
    [] level = WarnLevel -> 4
    [] level = ErrorLevel -> 8
    [] OTHER -> 0

\* The threshold a logger's messages are compared with: l.level, or the
\* Level option of the slog handler.
Threshold(im, level) == IF im = "slog" THEN levelToSlogLevel(level) ELSE level

\* A logger: the level given to New for it or for the logger it derives from
\* (configured), its threshold, its output and its fields.
NewLogger(im, level) ==
  [configured |-> level, min |-> Threshold(im, level), out |-> "stdout",
   fields |-> {}]

\* SetOutput: l.out = w, or a new text handler on w.
SetOutput(im, l, w) ==
  IF im = "slog"
  THEN [l EXCEPT !.out = w, !.min = levelToSlogLevel(InfoLevel), !.fields = {}]
  ELSE [l EXCEPT !.out = w]

\* Whether a message of the level passes: level < l.level returns early;
\* the slog handler is enabled from its Level option on.
Enabled(im, l, level) == Threshold(im, level) >= l.min

InitLog ==
  /\ variant = "pkg"
  /\ prefix = ""
  /\ env = <<>>
  /\ files = <<>>
  /\ values = EmptyTable
  /\ durations = <<>>
  /\ last = None
  /\ goroutines = <<>>
  /\ fatal = FALSE
  /\ NoMiddleware
  /\ impl = "pkg"
  /\ NotStarted
  /\ logImpl \in LogImpls
  /\ \E level \in Levels : loggers = <<NewLogger(logImpl, level)>>
  /\ logged = None

DoSetOutput(i, w) ==
  /\ loggers' = [loggers EXCEPT ![i] = SetOutput(logImpl, loggers[i], w)]
  /\ logged' = None
  /\ UNCHANGED <<cfgVars, concVars, webVars, logImpl>>

WithField(i, key) ==
  /\ Len(loggers) < MaxLoggers
  /\ loggers' = Append(loggers, [loggers[i] EXCEPT !.fields = @ \cup {key}])
  /\ logged' = None
  /\ UNCHANGED <<cfgVars, concVars, webVars, logImpl>>

WithFields(i, keys) ==
  /\ Len(loggers) < MaxLoggers
  /\ loggers' = Append(loggers, [loggers[i] EXCEPT !.fields = @ \cup keys])
  /\ logged' = None
  /\ UNCHANGED <<cfgVars, concVars, webVars, logImpl>>

\* Debug / Info / Warn / Error and their f forms.
Log(i, level) ==
  /\ logged' = [op |-> "log", logger |-> i, level |-> level,
                written |-> Enabled(logImpl, loggers[i], level),
                out |-> IF Enabled(logImpl, loggers[i], level)
                        THEN loggers[i].out ELSE "none"]
  /\ UNCHANGED <<cfgVars, concVars, webVars, logImpl, loggers>>

NextLog ==
  \/ \E i \in DOMAIN loggers, w \in Writers : DoSetOutput(i, w)
  \/ \E i \in DOMAIN loggers, key \in FieldKeys : WithField(i, key)
  \/ \E i \in DOMAIN loggers, keys \in SUBSET FieldKeys : WithFields(i, keys)
  \/ \E i \in DOMAIN loggers, level \in Levels : Log(i, level)

SpecLog == InitLog /\ [][NextLog]_vars


(***************************************************************************)
(* The claims.                                                             *)
(***************************************************************************)
\* The environment variable an accessor reads for the key of the last call.
LastKey == ToUpper(last.key)

LastEnvName == IF prefix = "" THEN LastKey ELSE prefix \o "_" \o LastKey

LastEnvValue == IF LastEnvName \in DOMAIN env THEN env[LastEnvName] ELSE ""

\* C1: String(key, D) is the environment variable's value E when it is set and
\* non-empty, else the file-value table's entry F for UPPER(key), else D; a
\* variable set to "" counts as not set.
C1_StringPriority ==
  last.op = "String" =>
    IF LastEnvValue # "" THEN last.res = LastEnvValue
    ELSE IF LastKey \in DOMAIN values THEN last.res = values[LastKey]
    ELSE last.res = last.dflt

\* String returned E although the table holds a different F and the default
\* differs from both.
C1_Witness ==
  /\ last.op = "String"
  /\ LastEnvValue # ""
  /\ LastKey \in DOMAIN values
  /\ values[LastKey] # LastEnvValue
  /\ last.dflt \notin {LastEnvValue, values[LastKey]}
  /\ last.res = LastEnvValue

\* C2 as claimed: Duration(key, d) is the parsed environment variable if it is
\* set, non-empty and parseable at the time of the call, else the parsed
\* file-value entry, else d.
C2_DurationPriorityAlways ==
  last.op = "Duration" =>
    last.res =
      IF LastEnvValue # "" /\ ParseDuration(LastEnvValue).ok
      THEN ParseDuration(LastEnvValue).v
      ELSE IF LastKey \in DOMAIN values /\ ParseDuration(values[LastKey]).ok
      THEN ParseDuration(values[LastKey]).v
      ELSE last.dflt

\* The string Duration parses: the first of environment value and table entry.
LastResolved ==
  IF LastEnvValue # "" THEN LastEnvValue
  ELSE IF LastKey \in DOMAIN values THEN values[LastKey]
  ELSE ""

\* C2 amended: a duration cached for UPPER(key) before the call (pkg/config
\* only) is returned as it is; otherwise Duration parses the resolved string
\* (environment value if non-empty, else table entry) and returns d when that
\* string is empty or does not parse.
C2_DurationPriority ==
  last.op = "Duration" =>
    IF LastKey \in DOMAIN last.cache
    THEN variant = "pkg" /\ last.res = last.cache[LastKey]
    ELSE last.res =
           IF LastResolved # "" /\ ParseDuration(LastResolved).ok
           THEN ParseDuration(LastResolved).v
           ELSE last.dflt

\* Duration returned the environment's 10s over a different table entry.
C2_Witness ==
  /\ last.op = "Duration"
  /\ LastKey \notin DOMAIN last.cache
  /\ LastEnvValue = "10s"
  /\ LastKey \in DOMAIN values
  /\ values[LastKey] = "45s"
  /\ last.res = 10000

\* The value the claims expect in field i of the last Load: the coerced
\* first hit of environment value envVal, table entry (as the table stood when
\* the field was resolved) and default.
FieldResolved(i, envVal) ==
  LET f == last.struct[i]
      k == ToUpper(ConfigKey(f))
  IN IF envVal # "" THEN envVal
     ELSE IF k \in DOMAIN last.seen[i] THEN last.seen[i][k]
     ELSE f.dflt

Coerced(kind, value) == ConfigSetField(kind, value)

\* C3: Load gives every settable field the coerced first hit of environment
\* variable, file-value entry and tag default.  (Stated for the fields where
\* the tag's variable and the prefix-derived one hold the same value, so that
\* which of the two is read plays no part.)
C3_LoadPriority ==
  (last.op = "Load" /\ last.err = "") =>
    \A i \in 1..Len(last.struct) :
      LET f == last.struct[i]
          envVal == Getenv(env, FieldEnvKey(prefix, f))
          value == FieldResolved(i, envVal)
      IN (/\ f.settable
          /\ envVal = Getenv(env, buildKey(prefix, ToUpper(ConfigKey(f))))
          /\ value # ""
          /\ Coerced(f.kind, value).ok)
         => last.res[i] = Coerced(f.kind, value).v

\* C4: the environment variable Load reads for a field is its env tag when
\* present, else prefix_UPPER(key), else UPPER(key), whatever the field's
\* type: a non-empty, coercible value of that variable ends up in the field.
C4_LoadEnvName ==
  (last.op = "Load" /\ last.err = "") =>
    \A i \in 1..Len(last.struct) :
      LET f == last.struct[i]
          name == IF f.env # "" THEN f.env
                  ELSE IF prefix # "" THEN prefix \o "_" \o ToUpper(ConfigKey(f))
                  ELSE ToUpper(ConfigKey(f))
          envVal == IF name \in DOMAIN env THEN env[name] ELSE ""
      IN (f.settable /\ envVal # "" /\ Coerced(f.kind, envVal).ok)
         => last.res[i] = Coerced(f.kind, envVal).v

\* C5: an accessor's result is the same for every key with the same uppercase
\* form as the key of the call.
C5_CaseInsensitive ==
  \A k2 \in Keys :
    (last.op \in {"String", "Int", "Bool", "Duration"} /\ ToUpper(k2) = LastKey) =>
      CASE last.op = "String" ->
             String(prefix, env, values, k2, last.dflt) = last.res
        [] last.op = "Int" -> Int_(prefix, env, values, k2, last.dflt) = last.res
        [] last.op = "Bool" -> Bool(prefix, env, values, k2, last.dflt) = last.res
        [] last.op = "Duration" ->
             Duration(variant, prefix, env, values, durations, k2, last.dflt).res
               = last.res

\* String("ttl", d) returned the entry a file wrote under the key "Ttl".
C5_Witness ==
  /\ last.op = "String"
  /\ last.key = "ttl"
  /\ LastEnvValue = ""
  /\ last.res = "45s"
  /\ last.res # last.dflt

\* C6: with a non-empty prefix, String's result does not depend on the bare
\* variable UPPER(key): it is the same in every environment that differs from
\* this one in that variable only.
C6_PrefixOnly ==
  (last.op = "String" /\ prefix # "") =>
    /\ String(prefix, [n \in DOMAIN env \ {LastKey} |-> env[n]], values,
              last.key, last.dflt) = last.res
    /\ \A v \in EnvVals :
         String(prefix, Put(env, LastKey, v), values, last.key, last.dflt) = last.res

\* Under prefix APP, String("ttl", d) did not return the value of a set TTL.
C6_Witness ==
  /\ last.op = "String"
  /\ prefix = "APP"
  /\ last.key = "ttl"
  /\ "TTL" \in DOMAIN env
  /\ env["TTL"] # ""
  /\ last.res # env["TTL"]

\* C7: Bool maps the resolved string, whatever its letter case, "true", "1",
\* "yes", "on" to TRUE, "false", "0", "no", "off" to FALSE, and everything
\* else, the empty string included, to the default.
C7_BoolTable ==
  last.op = "Bool" =>
    LET s == ToLower(LastResolved)
    IN /\ s \in {"true", "1", "yes", "on"} => last.res = TRUE
       /\ s \in {"false", "0", "no", "off"} => last.res = FALSE
       /\ s \notin {"true", "1", "yes", "on", "false", "0", "no", "off"}
            => last.res = last.dflt

\* Bool returned FALSE for "OFF" against a default of TRUE.
C7_Witness ==
  /\ last.op = "Bool"
  /\ LastResolved = "OFF"
  /\ last.dflt = TRUE
  /\ last.res = FALSE

\* C8 as claimed: Int, Bool and Duration return a value of their type, and
\* exactly the default when the resolved string is empty or does not parse.
C8_FailSoftAlways ==
  /\ last.op = "Int" =>
       /\ last.res \in Int
       /\ (LastResolved = "" \/ ~Atoi(LastResolved).ok) => last.res = last.dflt
  /\ last.op = "Bool" =>
       /\ last.res \in BOOLEAN
       /\ ToLower(LastResolved)
            \notin {"true", "1", "yes", "on", "false", "0", "no", "off"}
          => last.res = last.dflt
  /\ last.op = "Duration" =>
       /\ last.res \in Int
       /\ (LastResolved = "" \/ ~ParseDuration(LastResolved).ok)
          => last.res = last.dflt

\* C8 amended: the same, except that Duration in pkg/config returns the
\* duration cached for UPPER(key), if there is one, without resolving.
C8_FailSoft ==
  /\ last.op = "Int" =>
       /\ last.res \in Int
       /\ (LastResolved = "" \/ ~Atoi(LastResolved).ok) => last.res = last.dflt
  /\ last.op = "Bool" =>
       /\ last.res \in BOOLEAN
       /\ ToLower(LastResolved)
            \notin {"true", "1", "yes", "on", "false", "0", "no", "off"}
          => last.res = last.dflt
  /\ last.op = "Duration" =>
       /\ last.res \in Int
       /\ (/\ LastKey \notin DOMAIN last.cache
           /\ (LastResolved = "" \/ ~ParseDuration(LastResolved).ok))
          => last.res = last.dflt

\* Duration fell back to its default on an unparseable environment value
\* although the table holds a parseable entry.
C8_Witness ==
  /\ last.op = "Duration"
  /\ LastKey \notin DOMAIN last.cache
  /\ LastEnvValue = "zz"
  /\ LastKey \in DOMAIN values
  /\ ParseDuration(values[LastKey]).ok
  /\ last.res = last.dflt

\* The accessor of the last call, on another table.
LastOn(tbl) ==
  CASE last.op = "String" -> String(prefix, env, tbl, last.key, last.dflt)
    [] last.op = "Int" -> Int_(prefix, env, tbl, last.key, last.dflt)
    [] last.op = "Bool" -> Bool(prefix, env, tbl, last.key, last.dflt)

\* C9: String, Int and Bool give the same result whichever of the three
\* renderings of the document (JSON, YAML, KEY=VALUE) the fresh resolver
\* loaded.
C9_FormatsEquivalent ==
  (last.op \in {"String", "Int", "Bool"} /\ LoadedOnce) =>
    \A p \in DOMAIN files : \A o \in LoadFileOutcomes(files, EmptyTable, p) :
      LastOn(o.values) = last.res

RightMerge(a, b) ==
  [k \in DOMAIN a \cup DOMAIN b |-> IF k \in DOMAIN b THEN b[k] ELSE a[k]]

\* C10: a successful LoadFile leaves the right-biased merge of the table
\* before the call and the mapping parsed from the file (the file loaded into
\* an empty table); no LoadFile call removes a key.
C10_LoadAdditive ==
  last.op = "LoadFile" =>
    /\ DOMAIN last.before \subseteq DOMAIN values
    /\ last.err = "" =>
         \E o \in LoadFileOutcomes(files, EmptyTable, last.path) :
           values = RightMerge(last.before, o.values)

\* b.json, loaded after a.env, replaced TTL and kept PORT.
C10_Witness ==
  /\ last.op = "LoadFile"
  /\ last.path = "b.json"
  /\ last.err = ""
  /\ last.before = ("TTL" :> "45s") @@ ("PORT" :> "9000")
  /\ values = ("TTL" :> "60s") @@ ("PORT" :> "9000")


\* C11: a LoadFile call that returns an error leaves the file-value table as
\* it was before the call, so every accessor returns what it would have
\* returned without the call.
C11_FailedLoadNoEffect ==
  (last.op = "LoadFile" /\ last.err # "") =>
    /\ values = last.before
    /\ \A k \in Keys :
         /\ \A d \in StringDefaults :
              String(prefix, env, values, k, d)
                = String(prefix, env, last.before, k, d)
         /\ \A d \in IntDefaults :
              Int_(prefix, env, values, k, d) = Int_(prefix, env, last.before, k, d)
         /\ \A d \in BOOLEAN :
              Bool(prefix, env, values, k, d) = Bool(prefix, env, last.before, k, d)
         /\ \A d \in DurationDefaults :
              Duration(variant, prefix, env, values, durations, k, d).res
                = Duration(variant, prefix, env, last.before, durations, k, d).res

\* LoadFile of an unparseable YAML file failed on a resolver that had loaded
\* a file before, and the table is what it was.
C11_Witness ==
  /\ last.op = "LoadFile"
  /\ last.path = "bad.yaml"
  /\ last.err = "yaml"
  /\ last.before # EmptyTable
  /\ values = last.before

\* C12: Required(key) returns the resolved string when it is non-empty, and
\* otherwise panics with a message that names prefix_UPPER(key), or UPPER(key)
\* when the prefix is empty.
C12_Required ==
  last.op = "Required" =>
    IF LastResolved # ""
    THEN ~last.panic /\ last.res = LastResolved
    ELSE /\ last.panic
         /\ last.res = "required configuration " \o LastEnvName \o " is not set"

\* Under prefix APP, Required("ttl") panicked naming APP_TTL although the bare
\* TTL is set.
C12_Witness ==
  /\ last.op = "Required"
  /\ prefix = "APP"
  /\ last.key = "ttl"
  /\ "TTL" \in DOMAIN env
  /\ env["TTL"] # ""
  /\ last.panic
  /\ last.res = "required configuration APP_TTL is not set"

\* The environment value Load reads for field i of the last Load.
FieldEnvValue(i) == Getenv(env, FieldEnvKey(prefix, last.struct[i]))

\* C13: a field whose resolved value is empty (no non-empty environment
\* variable, no file entry, no default) holds after Load what the caller's
\* struct held in it before.
C13_EmptyLeavesField ==
  last.op = "Load" =>
    \A i \in 1..Len(last.struct) :
      FieldResolved(i, FieldEnvValue(i)) = "" => last.res[i] = last.target[i]

\* Whether a string is a value of the field's declared type.
Coercible(kind, value) ==
  CASE kind = "string" -> TRUE
    [] kind = "bool" ->
         ParseBool(value).ok \/ ToLower(value) \in {"yes", "on", "no", "off"}
    [] kind = "duration" -> ParseDuration(value).ok
    [] kind = "uint" -> ParseUint(value).ok
    [] OTHER -> Atoi(value).ok

Uncoercible(i) ==
  LET value == FieldResolved(i, FieldEnvValue(i))
  IN value # "" /\ ~Coercible(last.struct[i].kind, value)

\* C14: when the non-empty resolved value of a field cannot be coerced to the
\* field's type, Load returns an error naming that field (the first such
\* field of the struct).
C14_CoercionFailureReported ==
  last.op = "Load" =>
    \A i \in 1..Len(last.struct) :
      (Uncoercible(i) /\ \A j \in 1..(i - 1) : ~Uncoercible(j))
        => last.err = last.struct[i].name

\* C15: a Load on a struct without file tags leaves the file-value table as
\* it was, so String returns the same for every key.
C15_LoadWritesOnlyStruct ==
  (last.op = "Load" /\ \A i \in 1..Len(last.struct) : last.struct[i].file = "") =>
    /\ values = last.seen[1]
    /\ \A k \in Keys, d \in StringDefaults :
         String(prefix, env, values, k, d) = String(prefix, env, last.seen[1], k, d)

\* C17: every key of the file-value table and of the duration cache is equal
\* to its own uppercase form.
C17_KeysUppercase ==
  /\ \A k \in DOMAIN values : ToUpper(k) = k
  /\ \A k \in DOMAIN durations : ToUpper(k) = k

\* The file's "Ttl" and the caller's "ttl" are both stored under TTL.
C17_Witness ==
  /\ last.op = "Duration"
  /\ last.key = "ttl"
  /\ LastEnvValue = ""
  /\ DOMAIN values = {"TTL", "PORT"}
  /\ values["TTL"] = "45s"
  /\ DOMAIN durations = {"TTL"}


\* C16: concurrent accessor calls on a shared resolver are safe: no accessor
\* call writes a map while another running accessor call reads or writes
\* that map, and the runtime never ends the process for it.
C16_ConcurrentReadsSafe ==
  /\ ~fatal
  /\ \A g \in DOMAIN goroutines : \A h \in DOMAIN goroutines \ {g} :
       goroutines[g].pc = "cacheWrite" =>
         goroutines[h].pc \notin {"cacheRead", "cacheWrite"}


\* C18: a request to a handler registered after Use(m1), ..., Use(mn) runs
\* the before-parts of m1, ..., mn in that order, then the handler, then the
\* after-parts of mn, ..., m1.
C18_MiddlewareOrder ==
  served # "" =>
    LET ms == registered[served]
        n == Len(ms)
    IN order = [i \in 1..n |-> ms[i] \o "-before"]
                 \o <<"handler">>
                 \o [i \in 1..n |-> ms[n + 1 - i] \o "-after"]

\* The request of TestMiddlewareOrder.
C18_Witness ==
  /\ served = "/a"
  /\ registered["/a"] = <<"mw1", "mw2">>
  /\ order = <<"mw1-before", "mw2-before", "handler", "mw2-after", "mw1-after">>


\* C19: if the server is shut down while a Start call is blocked, by a
\* signal or by a concurrent call of Shutdown, that Start call eventually
\* returns.
C19_StartReturns ==
  (closed /\ startPc \in {"select", "recv", "shutdown", "draining"})
    ~> (startPc = "returned")


\* C20: a message of level m given to a logger is written, to that logger's
\* current output, if and only if m is at or above the level given to New.
C20_LevelFilter ==
  logged # None =>
    /\ logged.written <=> logged.level >= loggers[logged.logger].configured
    /\ logged.written => logged.out = loggers[logged.logger].out



\* The string the layers hold for an uppercased key: the environment value if
\* non-empty, else the table's entry, else "".
ResolvedFor(k) ==
  LET n == IF prefix = "" THEN k ELSE prefix \o "_" \o k
      e == IF n \in DOMAIN env THEN env[n] ELSE ""
  IN IF e # "" THEN e ELSE IF k \in DOMAIN values THEN values[k] ELSE ""

\* C21: in pkg/config a duration is memoised per uppercased key.  An entry of
\* the cache is never changed or removed by any step; a Duration call whose
\* key is in the cache returns the cached value whatever its default, the
\* environment and the table are now; a call that misses adds the value it
\* parsed, and adds nothing when it falls back to its default.
C21_Memoised ==
  [][/\ \A k \in DOMAIN durations :
          k \in DOMAIN durations' /\ durations'[k] = durations[k]
     /\ (variant = "pkg" /\ Idle /\ last'.op = "Duration") =>
          LET k == ToUpper(last'.key)
              val == ResolvedFor(k)
          IN IF k \in DOMAIN durations
             THEN last'.res = durations[k] /\ durations' = durations
             ELSE IF val # "" /\ ParseDuration(val).ok
             THEN /\ last'.res = ParseDuration(val).v
                  /\ durations' = Put(durations, k, ParseDuration(val).v)
             ELSE last'.res = last'.dflt /\ durations' = durations]_vars

\* A key was cached, the layers now resolve to something else, and Duration
\* still returned the cached value and not its default.
C21_Witness ==
  /\ variant = "pkg"
  /\ last.op = "Duration"
  /\ ToUpper(last.key) \in DOMAIN last.cache
  /\ last.res = last.cache[ToUpper(last.key)]
  /\ last.res # last.dflt
  /\ LET val == ResolvedFor(ToUpper(last.key))
     IN val # "" /\ ParseDuration(val).ok /\ ParseDuration(val).v # last.res


\* C22: String(key, D) returns the first non-empty hit among environment
\* variable, file-value entry and default: an entry whose value is "" (a line
\* KEY= of a key-value file) is not a hit, so String returns D.
C22_EmptyEntryIsNoHit ==
  (/\ last.op = "String"
   /\ LastEnvValue = ""
   /\ LastKey \in DOMAIN values
   /\ values[LastKey] = "") => last.res = last.dflt

\* The extension the documentation speaks of: the text after the last dot,
\* lowercased, and none for a path without a dot.
DocumentedExt(path) == IF IndexOf(path, ".") = 0 THEN "" ELSE Ext(path)

\* C24: LoadFile takes the parser from the extension (json; yaml, yml; env,
\* txt, conf; in any case) and for a path with another extension or with none
\* uses the first of JSON, YAML and key-value that succeeds; with such a path
\* it returns no error as long as one of the three parses the content.
C24_ParserChoice ==
  (last.op = "LoadFile" /\ last.path \in DOMAIN files) =>
    LET ext == DocumentedExt(last.path)
        data == files[last.path]
        known == {"json", "yaml", "yml", "env", "txt", "conf"}
    IN /\ [err |-> last.err, values |-> values] \in ParseAs(ext, last.before, data)
       /\ ext \notin known => last.err = ""

\* One pair of matching quotes around v removed, anything else kept.
StripOneLayer(v) ==
  IF /\ Len(v) >= 2
     /\ Ch(v, 1) \in {"\"", "'"}
     /\ Ch(v, Len(v)) = Ch(v, 1)
  THEN SubSeq(v, 2, Len(v) - 1)
  ELSE v

\* C25: the key-value parser strips exactly one layer of surrounding quotes:
\* a value in one pair of matching single or double quotes loses that pair
\* only; nested, repeated or unmatched quote characters are kept.
C25_OneQuoteLayer ==
  (last.op = "LoadFile" /\ last.path = "q.env" /\ last.err = "") =>
    \A i \in 1..Len(QuoteCases) :
      /\ QuoteCases[i].k \in DOMAIN values
      /\ values[QuoteCases[i].k] = StripOneLayer(QuoteCases[i].raw)

\* C28: LoadFile is deterministic: the table after a load is the only table
\* that load of that file into that table can produce, also when two keys of
\* the document normalise to the same table key.
C28_LoadFileDeterministic ==
  last.op = "LoadFile" =>
    \A o \in LoadFileOutcomes(files, last.before, last.path) :
      o.err = last.err /\ o.values = values


\* C23: after LoadFile of a JSON document in which key k holds the integer
\* literal n, the stored text is n's plain base-10 form, Int(k, d) returns n
\* for every d, and Load assigns n to an int field bound to k.
C23_JSONInteger ==
  (last.op = "LoadFile" /\ Ext(last.path) = "json" /\ last.err = "") =>
    LET tree == files[last.path].json.tree
    IN \A k \in DOMAIN tree :
         tree[k].t = "float" =>
           /\ values[ToUpper(k)] = Itoa(tree[k].n)
           /\ \A d \in IntDefaults \cup {0} :
                Int_(prefix, env, values, k, d) = tree[k].n
           /\ \A st \in LoadOutcomes(variant, prefix, env, files, values,
                                     durations,
                                     <<Field("N", "int", k, "", "", "")>>,
                                     <<0>>) :
                st.err = "" /\ st.vals[1] = tree[k].n


\* The number of fields the last Load went through without an error.
FieldsDone ==
  IF last.err = "" THEN Len(last.struct)
  ELSE (CHOOSE i \in 1..Len(last.struct) : last.struct[i].name = last.err) - 1

\* C26: Load goes through the fields in declaration order and stops at the
\* first one that fails: when it returns an error for field i, every earlier
\* settable field with a non-empty resolved value holds that value coerced to
\* its type, and every later field holds what it held before the call.
C26_StopsAtFirstFailure ==
  (last.op = "Load" /\ last.err # "") =>
    /\ \E i \in 1..Len(last.struct) : last.struct[i].name = last.err
    /\ \A j \in 1..FieldsDone :
         LET f == last.struct[j]
             value == FieldResolved(j, FieldEnvValue(j))
         IN (f.settable /\ value # "")
              => /\ Coerced(f.kind, value).ok
                 /\ last.res[j] = Coerced(f.kind, value).v
    /\ \A j \in (FieldsDone + 2)..Len(last.struct) : last.res[j] = last.target[j]

\* The tables field i of the last Load can see by the documentation: the
\* table before the call with the files of the fields up to i loaded into it
\* in declaration order, a file that fails to load leaving it as it is.
RECURSIVE TablesAt(_)
TablesAt(i) ==
  IF i = 0 THEN {last.before}
  ELSE IF last.struct[i].file = "" THEN TablesAt(i - 1)
  ELSE UNION {{o.values : o \in LoadFileOutcomes(files, t, last.struct[i].file)} :
                t \in TablesAt(i - 1)}

\* C27: during Load the file of field i's file tag is loaded before field i
\* is resolved: field i and the later fields are resolved against a table
\* holding its values, the earlier fields against a table without them.  A
\* failure of that nested load is no error of Load: the field is resolved
\* from the other layers, and an error of Load names a field whose resolved
\* value is not of its type.
C27_NestedFileVisible ==
  (last.op = "Load" /\ \E i \in 1..Len(last.struct) : last.struct[i].file # "") =>
    /\ \A i \in 1..FieldsDone :
         \E t \in TablesAt(i) :
           LET f == last.struct[i]
               value == FieldValue(prefix, env, t, f)
           IN IF value = "" THEN last.res[i] = last.target[i]
              ELSE /\ Coerced(f.kind, value).ok
                   /\ last.res[i] = Coerced(f.kind, value).v
    /\ last.err # "" =>
         \E t \in TablesAt(FieldsDone + 1) :
           LET f == last.struct[FieldsDone + 1]
               value == FieldValue(prefix, env, t, f)
           IN value # "" /\ ~Coerced(f.kind, value).ok

\* C29: Load never leaves in an integer field a number other than the base-10
\* value of the field's resolved string: a value outside the range of the
\* field's type makes Load return an error for that field.
C29_NoTruncation ==
  last.op = "Load" =>
    \A i \in 1..FieldsDone :
      LET f == last.struct[i]
          value == FieldResolved(i, FieldEnvValue(i))
      IN (f.kind \in IntKinds \cup UintKinds /\ value # "" /\ Atoi(value).ok)
           => last.res[i] = Atoi(value).v


\* The middleware a registered handler is wrapped in, outermost first.
RECURSIVE Chain(_)
Chain(handler) ==
  IF handler.kind = "func" THEN <<>>
  ELSE <<handler.mw>> \o Chain(handler.next)

\* C30: the middleware of a handler is fixed when it is registered: Handle
\* wraps it in exactly the middleware added so far, first added outermost;
\* no later step (a Use in particular) changes the handler registered for a
\* pattern, and Use only appends, keeping the earlier middleware in order.
C30_FixedAtRegistration ==
  [][/\ \A p \in DOMAIN routes : p \in DOMAIN routes' /\ routes'[p] = routes[p]
     /\ \A p \in DOMAIN routes' \ DOMAIN routes :
          middleware' = middleware /\ Chain(routes'[p]) = middleware
     /\ Len(middleware') >= Len(middleware)
     /\ SubSeq(middleware', 1, Len(middleware)) = middleware]_vars

\* A handler registered after Use(mw1) and served after a later Use(mw2):
\* only mw1 runs around it.
C30_Witness ==
  /\ "/a" \in DOMAIN routes
  /\ Chain(routes["/a"]) = <<"mw1">>
  /\ middleware = <<"mw1", "mw2">>
  /\ served = "/a"
  /\ order = <<"mw1-before", "handler", "mw1-after">>

====
